---------------------------- MODULE Spec2Model ----------------------------
(***************************************************************************)
(* A model of the playing-card deck library (package deck): the Card value *)
(* type of card.go and the Deck container of deck.go.  A Deck is the       *)
(* sequence d.cards; index 0 of the Go slice (the top of the deck) is      *)
(* position 1 of the TLA+ sequence.  Every method of Deck is an operator   *)
(* on that sequence, translated from its body, and every call of a method  *)
(* is one action.                                                          *)
(***************************************************************************)
EXTENDS Integers, Sequences, FiniteSets, TLC

VARIABLES
    cards,   \* d.cards of the deck under test
    prev,    \* d.cards as it was when the last call was made
    op,      \* the constructor or method that was called last
    arg,     \* the arguments of that call
    ret,     \* what that call returned
    twin,    \* a second Deck object, with the record of its own last call
    mem      \* the arrays behind d.cards and behind a slice a caller holds

vars == <<cards, prev, op, arg, ret, twin, mem>>

---------------------------------------------------------------------------
(* Bounds of the model.                                                    *)

\* Longest deck the caller builds card by card (NewDeckFromCards, AddCard,
\* AddCards, InsertCard) and longest deck Shuffle is called on; longer decks
\* come only from NewDeck and Reset.
MaxLen == 4

\* Seeds handed to ShuffleWithSeed are 0..MaxSeed.
MaxSeed == 2

\* Counts and positions handed to DealN, PeekN and InsertCard run from
\* NMargin below 0 to NMargin above Size().
NMargin == 2

---------------------------------------------------------------------------
(* card.go                                                                 *)

Spades == 0
Hearts == 1
Diamonds == 2
Clubs == 3

Ace == 1
Two == 2
Three == 3
Four == 4
Five == 5
Six == 6
Seven == 7
Eight == 8
Nine == 9
Ten == 10
Jack == 11
Queen == 12
King == 13

NewCard(suit, rank) == [Suit |-> suit, Rank |-> rank]

\* Card{}: the zero value of the struct.
ZeroCard == [Suit |-> 0, Rank |-> 0]

IsRed(c) == c.Suit = Hearts \/ c.Suit = Diamonds

IsBlack(c) == c.Suit = Spades \/ c.Suit = Clubs

IsFaceCard(c) == c.Rank = Jack \/ c.Rank = Queen \/ c.Rank = King

---------------------------------------------------------------------------
(* deck.go: construction                                                   *)

suits == <<Spades, Hearts, Diamonds, Clubs>>

ranks == <<Ace, Two, Three, Four, Five, Six, Seven, Eight, Nine, Ten, Jack, Queen, King>>

\* The two nested range loops of NewDeck: si and ri are the loop positions,
\* acc is the slice built so far.
RECURSIVE NewDeckLoop(_, _, _)
NewDeckLoop(si, ri, acc) ==
    IF si > Len(suits) THEN acc
    ELSE IF ri > Len(ranks) THEN NewDeckLoop(si + 1, 1, acc)
    ELSE NewDeckLoop(si, ri + 1, Append(acc, NewCard(suits[si], ranks[ri])))

\* NewDeck with its loops nested the other way round: rank by rank, the
\* four suits of each.
NewDeck_RankMajor ==
    [k \in 1..(Len(suits) * Len(ranks)) |->
        NewCard(suits[((k - 1) % Len(suits)) + 1], ranks[((k - 1) \div Len(suits)) + 1])]

NewDeck == NewDeckLoop(1, 1, <<>>)

NewEmptyDeck == <<>>

\* make + copy: a slice of the same length holding the same values.
NewDeckFromCards(cs) == [k \in 1..Len(cs) |-> cs[k]]

Size(cs) == Len(cs)

IsEmpty(cs) == Len(cs) = 0

\* Cards whose new slice has length 0 and capacity len(d.cards): copy then
\* copies nothing.
Cards_CopiesNothing(cs) == [k \in 1..0 |-> cs[k]]

Cards(cs) == [k \in 1..Len(cs) |-> cs[k]]

---------------------------------------------------------------------------
(* deck.go: the error values, by their messages                            *)

nil == "nil"

ErrDealEmpty == "cannot deal from empty deck"

ErrDealNegative == "cannot deal negative number of cards"

ErrPeekEmpty == "cannot peek at empty deck"

ErrPeekNegative == "cannot peek at negative number of cards"

ErrNotEnough == "not enough cards in deck"

ErrPosition == "invalid position"

\* What a call returns: the Card, the []Card (or the cards of the *Deck),
\* the bool, the map of counts and the error; the parts a method does not
\* return keep these values.
NoRet == [card |-> ZeroCard, cards |-> <<>>, ok |-> FALSE, counts |-> <<>>, err |-> nil]

\* The arguments of a call: the int (n, position or seed), the Card, the
\* []Card and the predicate (the set of cards it accepts).
NoArg == [n |-> 0, card |-> ZeroCard, cards |-> <<>>, pred |-> {}]

---------------------------------------------------------------------------
(* deck.go: dealing and peeking                                            *)

\* s[lo:hi] of a Go slice, 0-based and half-open.
Slice(s, lo, hi) == SubSeq(s, lo + 1, hi)

\* Deal with the slice cut at the wrong end: the card at index 0 is returned
\* and the bottom card is dropped.
Deal_CutsBottom(cs) ==
    IF IsEmpty(cs)
    THEN [cards |-> cs, card |-> ZeroCard, err |-> ErrDealEmpty]
    ELSE [cards |-> Slice(cs, 0, Len(cs) - 1), card |-> cs[1], err |-> nil]

Deal(cs) ==
    IF IsEmpty(cs)
    THEN [cards |-> cs, card |-> ZeroCard, err |-> ErrDealEmpty]
    ELSE [cards |-> Slice(cs, 1, Len(cs)), card |-> cs[1], err |-> nil]

\* DealN that takes the n cards from the bottom of the deck.
DealN_FromBottom(cs, n) ==
    IF n < 0 THEN [cards |-> cs, ret |-> <<>>, err |-> ErrDealNegative]
    ELSE IF n > Len(cs) THEN [cards |-> cs, ret |-> <<>>, err |-> ErrNotEnough]
    ELSE [cards |-> Slice(cs, 0, Len(cs) - n), ret |-> Slice(cs, Len(cs) - n, Len(cs)),
          err |-> nil]

DealN(cs, n) ==
    IF n < 0 THEN [cards |-> cs, ret |-> <<>>, err |-> ErrDealNegative]
    ELSE IF n > Len(cs) THEN [cards |-> cs, ret |-> <<>>, err |-> ErrNotEnough]
    ELSE [cards |-> Slice(cs, n, Len(cs)), ret |-> Slice(cs, 0, n), err |-> nil]

\* Peek that looks at the other end of the slice.
Peek_AtBottom(cs) ==
    IF IsEmpty(cs)
    THEN [cards |-> cs, card |-> ZeroCard, err |-> ErrPeekEmpty]
    ELSE [cards |-> cs, card |-> cs[Len(cs)], err |-> nil]

Peek(cs) ==
    IF IsEmpty(cs)
    THEN [cards |-> cs, card |-> ZeroCard, err |-> ErrPeekEmpty]
    ELSE [cards |-> cs, card |-> cs[1], err |-> nil]

\* PeekN whose second test is n >= len(d.cards).
PeekN_OffByOne(cs, n) ==
    IF n < 0 THEN [cards |-> cs, ret |-> <<>>, err |-> ErrPeekNegative]
    ELSE IF n >= Len(cs) THEN [cards |-> cs, ret |-> <<>>, err |-> ErrNotEnough]
    ELSE [cards |-> cs, ret |-> Slice(cs, 0, n), err |-> nil]

PeekN(cs, n) ==
    IF n < 0 THEN [cards |-> cs, ret |-> <<>>, err |-> ErrPeekNegative]
    ELSE IF n > Len(cs) THEN [cards |-> cs, ret |-> <<>>, err |-> ErrNotEnough]
    ELSE [cards |-> cs, ret |-> Slice(cs, 0, n), err |-> nil]

---------------------------------------------------------------------------
(* deck.go: adding, inserting, removing                                    *)

AddCard(cs, card) == Append(cs, card)

\* AddCards that puts the new cards in front of the deck's.
AddCards_OnTop(cs, more) == more \o cs

AddCards(cs, more) == cs \o more

\* InsertCard that grows the slice before it tests the position.
InsertCard_GrowsFirst(cs, card, position) ==
    LET grown == Append(cs, ZeroCard)
    IN  IF position < 0 \/ position > Len(cs)
        THEN [cards |-> grown, err |-> ErrPosition]
        ELSE LET moved == [k \in 1..Len(grown) |->
                              IF k > position + 1 THEN grown[k - 1] ELSE grown[k]]
             IN  [cards |-> [moved EXCEPT ![position + 1] = card], err |-> nil]

\* InsertCard whose copy runs card by card from position upwards, so that
\* each card it moves overwrites the one it would move next.
InsertCard_CopiesUpwards(cs, card, position) ==
    IF position < 0 \/ position > Len(cs)
    THEN [cards |-> cs, err |-> ErrPosition]
    ELSE LET grown == Append(cs, ZeroCard)
             moved == [k \in 1..Len(grown) |->
                          IF k > position + 1 THEN grown[position + 1] ELSE grown[k]]
         IN  [cards |-> [moved EXCEPT ![position + 1] = card], err |-> nil]

\* append(d.cards, Card{}); copy(d.cards[position+1:], d.cards[position:]);
\* d.cards[position] = card.  copy moves as memmove does.
InsertCard(cs, card, position) ==
    IF position < 0 \/ position > Len(cs)
    THEN [cards |-> cs, err |-> ErrPosition]
    ELSE LET grown == Append(cs, ZeroCard)
             moved == [k \in 1..Len(grown) |->
                          IF k > position + 1 THEN grown[k - 1] ELSE grown[k]]
         IN  [cards |-> [moved EXCEPT ![position + 1] = card], err |-> nil]

\* The range loop of RemoveCard from 0-based index i on.
RECURSIVE RemoveLoop(_, _, _)
RemoveLoop(cs, card, i) ==
    IF i >= Len(cs) THEN [cards |-> cs, ok |-> FALSE]
    ELSE IF cs[i + 1].Suit = card.Suit /\ cs[i + 1].Rank = card.Rank
    THEN [cards |-> Slice(cs, 0, i) \o Slice(cs, i + 1, Len(cs)), ok |-> TRUE]
    ELSE RemoveLoop(cs, card, i + 1)

\* RemoveCard whose loop runs from the bottom of the deck upwards.
RemoveCard_FromBottom(cs, card) ==
    LET hits == {k \in 1..Len(cs) : cs[k].Suit = card.Suit /\ cs[k].Rank = card.Rank}
    IN  IF hits = {} THEN [cards |-> cs, ok |-> FALSE]
        ELSE LET i == CHOOSE k \in hits : \A h \in hits : h <= k
             IN  [cards |-> Slice(cs, 0, i - 1) \o Slice(cs, i, Len(cs)), ok |-> TRUE]

RemoveCard(cs, card) == RemoveLoop(cs, card, 0)

Reset == NewDeck

\* d.cards[:0]
Clear(cs) == Slice(cs, 0, 0)

---------------------------------------------------------------------------
(* deck.go: Contains and the counts                                        *)

\* The range loop returns true at the first card equal to card in suit and
\* rank, and false when it has passed every card.
Contains(cs, card) ==
    \E i \in 0..(Len(cs) - 1) : cs[i + 1].Suit = card.Suit /\ cs[i + 1].Rank = card.Rank

\* counts[key]++ on a Go map: the value of a key that is present grows by
\* one; a key that is absent reads as 0 and is created with the value 1.
Increment(counts, key) ==
    IF key \in DOMAIN counts
    THEN [counts EXCEPT ![key] = @ + 1]
    ELSE [k \in DOMAIN counts \cup {key} |-> IF k = key THEN 1 ELSE counts[k]]

\* The range loop of CountBySuit; l holds the 0-based index i of the next
\* card and the map counts built so far.
RECURSIVE CountBySuitLoop(_, _)
CountBySuitLoop(cs, l) ==
    IF l.i >= Len(cs) THEN l.counts
    ELSE CountBySuitLoop(cs, [i |-> l.i + 1,
                              counts |-> Increment(l.counts, cs[l.i + 1].Suit)])

\* CountBySuit that starts from a map holding every suit with the count 0.
CountBySuit_AllSuits(cs) ==
    CountBySuitLoop(cs, [i |-> 0, counts |-> [s \in {Spades, Hearts, Diamonds, Clubs} |-> 0]])

\* make(map[Suit]int): the map without keys.
CountBySuit(cs) == CountBySuitLoop(cs, [i |-> 0, counts |-> <<>>])

\* The range loop of CountByRank; l as in CountBySuitLoop.
RECURSIVE CountByRankLoop(_, _)
CountByRankLoop(cs, l) ==
    IF l.i >= Len(cs) THEN l.counts
    ELSE CountByRankLoop(cs, [i |-> l.i + 1,
                              counts |-> Increment(l.counts, cs[l.i + 1].Rank)])

CountByRank(cs) == CountByRankLoop(cs, [i |-> 0, counts |-> <<>>])

---------------------------------------------------------------------------
(* deck.go: Filter and Sort                                                *)

\* Filter whose loop starts at index 1.
Filter_SkipsTop(cs, pred) ==
    NewDeckFromCards(SelectSeq(SubSeq(cs, 2, Len(cs)), LAMBDA card : card \in pred))

\* The range loop appends to filtered, in deck order, each card the predicate
\* holds of; NewDeckFromCards copies the result into the new deck.
Filter(cs, pred) == NewDeckFromCards(SelectSeq(cs, LAMBDA card : card \in pred))

\* The exchange written as two assignments in a row, d.cards[i] = d.cards[j]
\* and then d.cards[j] = d.cards[i]: the card at i is lost.
Swap_Overwrites(cs, i, j) == [cs EXCEPT ![i + 1] = cs[j + 1]]

\* d.cards[i], d.cards[j] = d.cards[j], d.cards[i], 0-based.
Swap(cs, i, j) == [cs EXCEPT ![i + 1] = cs[j + 1], ![j + 1] = cs[i + 1]]

\* The comparison without its second disjunct: the rank is not looked at.
OutOfOrder_SuitOnly(card1, card2) == card1.Suit > card2.Suit

\* The condition under which the bubble sort exchanges two neighbours.
OutOfOrder(card1, card2) ==
    card1.Suit > card2.Suit \/ (card1.Suit = card2.Suit /\ card1.Rank > card2.Rank)

RECURSIVE SortInner(_, _, _)
SortInner(cs, i, j) ==
    IF j < Len(cs) - i - 1
    THEN SortInner(IF OutOfOrder(cs[j + 1], cs[j + 2]) THEN Swap(cs, j, j + 1) ELSE cs,
                   i, j + 1)
    ELSE cs

RECURSIVE SortOuter(_, _)
SortOuter(cs, i) ==
    IF i < Len(cs) - 1 THEN SortOuter(SortInner(cs, i, 0), i + 1) ELSE cs

\* Sort that makes one pass over the deck only.
Sort_OnePass(cs) == SortInner(cs, 0, 0)

Sort(cs) == SortOuter(cs, 0)

---------------------------------------------------------------------------
(* deck.go: shuffling                                                      *)

\* The generator of math/rand is outside the repository.  It is modelled by
\* what the shuffles rely on: NewSource(seed) fixes the generator's state,
\* and every Intn(n) advances the state and returns a value in 0..n-1 that
\* is a function of the state before the call.  The stand-in is a linear
\* congruential generator of period RngMod whose lowest bit is dropped.
RngMod == 1024

NewSource(seed) == seed % RngMod

Intn(r, n) ==
    LET next == (13 * r + 7) % RngMod
    IN  [val |-> (next \div 2) % n, next |-> next]

\* The draws a generator seeded from the wall clock may make in a shuffle of
\* n cards: any j in 0..i for every i; draws[i] is the value of r.Intn(i + 1).
Draws(n) ==
    {draws \in [1..(n - 1) -> 0..(n - 1)] : \A i \in 1..(n - 1) : draws[i] <= i}

\* The loop of Shuffle; l holds what the loop works on: the cards and the
\* index i, which runs down to 1.
RECURSIVE ShuffleLoop(_, _)
ShuffleLoop(l, draws) ==
    IF l.i > 0
    THEN ShuffleLoop([cards |-> Swap(l.cards, l.i, draws[l.i]), i |-> l.i - 1], draws)
    ELSE l.cards

\* Shuffle whose loop starts one index too low: the bottom card stays.
Shuffle_StartsBelowLast(cs, draws) == ShuffleLoop([cards |-> cs, i |-> Len(cs) - 2], draws)

Shuffle(cs, draws) == ShuffleLoop([cards |-> cs, i |-> Len(cs) - 1], draws)

\* The swaps the loop of Shuffle makes from i down to 1, in the order it
\* makes them: the positions i and j of each.
RECURSIVE SwapsLoop(_, _)
SwapsLoop(i, draws) ==
    IF i > 0 THEN <<[i |-> i, j |-> draws[i]]>> \o SwapsLoop(i - 1, draws) ELSE <<>>

ShuffleSwaps(cs, draws) == SwapsLoop(Len(cs) - 1, draws)

\* The loop of ShuffleWithSeed; l holds what the loop works on: the cards, the
\* index i, which runs down to 1, and the generator's state r.
RECURSIVE SeedLoop(_)
SeedLoop(l) ==
    IF l.i > 0
    THEN LET d == Intn(l.r, l.i + 1)
         IN  SeedLoop([cards |-> Swap(l.cards, l.i, d.val), i |-> l.i - 1, r |-> d.next])
    ELSE l.cards

ShuffleWithSeed(cs, seed) ==
    SeedLoop([cards |-> cs, i |-> Len(cs) - 1, r |-> NewSource(seed)])

---------------------------------------------------------------------------
(* The callers' inputs.                                                    *)

\* The cards the caller hands in: a face card of a black suit and two cards
\* of one red suit, so that suit and rank order disagree between them.
CardInputs == {NewCard(Spades, King), NewCard(Hearts, Ace), NewCard(Hearts, Two)}

\* The lists the caller hands in.
ListInputs == UNION {[1..k -> CardInputs] : k \in 0..MaxLen}

Seeds == 0..MaxSeed

\* The counts and positions handed in for a deck of the given size.
IntInputs(size) == (0 - NMargin)..(size + NMargin)

\* Every card a deck can hold.
AllCards == {NewDeck[k] : k \in 1..Len(NewDeck)}

\* The predicates handed to Filter, each as the set of cards it accepts:
\* the three classification methods of Card, a test on the suit as in
\* TestFilter, and the predicates that accept nothing and everything.
PredInputs ==
    { {c \in AllCards : IsRed(c)},
      {c \in AllCards : IsBlack(c)},
      {c \in AllCards : IsFaceCard(c)},
      {c \in AllCards : c.Suit = Hearts},
      {},
      AllCards }

\* The second deck and the record of its last call: its cards now and
\* before the call, the method, the int argument, the []Card and the error
\* returned; same tells whether the two decks were constructed from the same
\* sequence of cards.  In Spec there is no second deck.
NoTwin ==
    [cards |-> <<>>, prev |-> <<>>, op |-> "none", n |-> 0, ret |-> <<>>,
     err |-> nil, same |-> FALSE]

\* The arrays of the program, by number.  Array 1 is the one behind d.cards,
\* array 2 the one behind the caller's slice when that is another one, and
\* array 3 is the one a call allocates.
Arrays == 1..3

\* A slice is an array, the offset of its first element in it and its
\* length; its capacity is what the array holds from the offset on.  NoSlice
\* stands for a slice the caller does not hold.
NoSlice == [arr |-> 0, off |-> 0, len |-> 0]

\* The memory: the arrays' elements, the slice d.cards, the slice the caller
\* holds and the call it came from or went to, and what the caller's slice
\* showed before and after the last call on the deck.  Spec and SpecPair
\* look at the deck as a sequence and leave the memory out.
NoMem ==
    [heap |-> [a \in Arrays |-> <<>>], deck |-> NoSlice, held |-> NoSlice,
     from |-> "none", heldWas |-> <<>>, heldNow |-> <<>>]

---------------------------------------------------------------------------
(* The calls on the deck under test.                                       *)

\* The record of one call: its name, arguments and results, the deck before
\* it and the deck after it.
Called(name, a, r, after) ==
    /\ op' = name
    /\ arg' = a
    /\ ret' = r
    /\ prev' = cards
    /\ cards' = after
    /\ UNCHANGED <<twin, mem>>

Init ==
    /\ prev = <<>>
    /\ ret = NoRet
    /\ twin = NoTwin
    /\ mem = NoMem
    /\ \/ cards = NewEmptyDeck /\ op = "NewEmptyDeck" /\ arg = NoArg
       \/ \E cs \in ListInputs :
            /\ cards = NewDeckFromCards(cs)
            /\ op = "NewDeckFromCards"
            /\ arg = [NoArg EXCEPT !.cards = cs]
       \/ cards = NewDeck /\ op = "NewDeck" /\ arg = NoArg

CallDeal ==
    LET r == Deal(cards)
    IN  Called("Deal", NoArg, [NoRet EXCEPT !.card = r.card, !.err = r.err], r.cards)

CallDealN ==
    \E n \in IntInputs(Len(cards)) :
        LET r == DealN(cards, n)
        IN  Called("DealN", [NoArg EXCEPT !.n = n],
                   [NoRet EXCEPT !.cards = r.ret, !.err = r.err], r.cards)

CallPeek ==
    LET r == Peek(cards)
    IN  Called("Peek", NoArg, [NoRet EXCEPT !.card = r.card, !.err = r.err], r.cards)

CallPeekN ==
    \E n \in IntInputs(Len(cards)) :
        LET r == PeekN(cards, n)
        IN  Called("PeekN", [NoArg EXCEPT !.n = n],
                   [NoRet EXCEPT !.cards = r.ret, !.err = r.err], r.cards)

CallAddCard ==
    /\ Len(cards) < MaxLen
    /\ \E c \in CardInputs :
        Called("AddCard", [NoArg EXCEPT !.card = c], NoRet, AddCard(cards, c))

CallAddCards ==
    \E more \in ListInputs :
        /\ Len(cards) + Len(more) <= MaxLen
        /\ Called("AddCards", [NoArg EXCEPT !.cards = more], NoRet, AddCards(cards, more))

CallInsertCard ==
    \E c \in CardInputs, position \in IntInputs(Len(cards)) :
        LET r == InsertCard(cards, c, position)
        IN  /\ r.err = nil => Len(cards) < MaxLen
            /\ Called("InsertCard", [NoArg EXCEPT !.card = c, !.n = position],
                      [NoRet EXCEPT !.err = r.err], r.cards)

CallRemoveCard ==
    \E c \in CardInputs :
        LET r == RemoveCard(cards, c)
        IN  Called("RemoveCard", [NoArg EXCEPT !.card = c],
                   [NoRet EXCEPT !.ok = r.ok], r.cards)

\* Reset that appends the cards of the new deck to the deck's own.
CallReset_Appends == Called("Reset", NoArg, NoRet, cards \o Reset)

CallReset == Called("Reset", NoArg, NoRet, Reset)

CallClear == Called("Clear", NoArg, NoRet, Clear(cards))

CallShuffle ==
    /\ Len(cards) <= MaxLen
    /\ \E draws \in Draws(Len(cards)) :
        Called("Shuffle", NoArg, NoRet, Shuffle(cards, draws))

\* ShuffleWithSeed that seeds its generator as Shuffle does, from the clock
\* (any value) and not from its argument.
CallShuffleWithSeed_ClockSeeded ==
    /\ Len(cards) <= MaxLen \/ cards = NewDeck
    /\ \E seed \in Seeds, now \in Seeds :
        Called("ShuffleWithSeed", [NoArg EXCEPT !.n = seed], NoRet,
               ShuffleWithSeed(cards, now))

CallShuffleWithSeed ==
    /\ Len(cards) <= MaxLen \/ cards = NewDeck
    /\ \E seed \in Seeds :
        Called("ShuffleWithSeed", [NoArg EXCEPT !.n = seed], NoRet,
               ShuffleWithSeed(cards, seed))

CallSort == Called("Sort", NoArg, NoRet, Sort(cards))

CallFilter ==
    \E pred \in PredInputs :
        Called("Filter", [NoArg EXCEPT !.pred = pred],
               [NoRet EXCEPT !.cards = Filter(cards, pred)], cards)

CallContains ==
    \E c \in CardInputs :
        Called("Contains", [NoArg EXCEPT !.card = c],
               [NoRet EXCEPT !.ok = Contains(cards, c)], cards)

CallCountBySuit ==
    Called("CountBySuit", NoArg, [NoRet EXCEPT !.counts = CountBySuit(cards)], cards)

CallCountByRank ==
    Called("CountByRank", NoArg, [NoRet EXCEPT !.counts = CountByRank(cards)], cards)

\* The deck is one the calls of Spec change; a longer one (the full deck of
\* NewDeck and Reset) is there only looked at, sorted, cleared or reset.
Small == Len(cards) <= MaxLen

Next ==
    \/ Small /\ CallDeal
    \/ Small /\ CallDealN
    \/ CallPeek
    \/ CallPeekN
    \/ Small /\ CallAddCard
    \/ Small /\ CallAddCards
    \/ Small /\ CallInsertCard
    \/ Small /\ CallRemoveCard
    \/ Small /\ CallShuffle
    \/ Small /\ CallShuffleWithSeed
    \/ CallSort
    \/ CallFilter
    \/ CallReset
    \/ CallClear
    \/ CallContains
    \/ CallCountBySuit
    \/ CallCountByRank

Spec == Init /\ [][Next]_vars

---------------------------------------------------------------------------
(* Two decks side by side, as in TestShuffleWithSeed: both are constructed, *)
(* the first is shuffled with a seed and dealt from, and the second is      *)
(* shuffled with a seed of its own and, when the seeds agree, dealt from    *)
(* in the same way.                                                         *)

Constructors == {"NewDeck", "NewEmptyDeck", "NewDeckFromCards"}

\* The cards and lists the two decks are constructed from.
PairCards == {NewCard(Spades, King), NewCard(Hearts, Ace)}

PairLists == UNION {[1..k -> PairCards] : k \in 0..MaxLen}

\* s from its last element to its first.
Reversed(s) == [k \in 1..Len(s) |-> s[Len(s) + 1 - k]]

InitPair ==
    /\ prev = <<>>
    /\ ret = NoRet
    /\ mem = NoMem
    /\ \/ \E cs \in PairLists, ds \in PairLists :
            /\ Len(cs) = Len(ds)
            /\ cards = NewDeckFromCards(cs)
            /\ op = "NewDeckFromCards"
            /\ arg = [NoArg EXCEPT !.cards = cs]
            /\ twin = [NoTwin EXCEPT !.cards = NewDeckFromCards(ds),
                                     !.op = "NewDeckFromCards", !.same = (cs = ds)]
       \/ /\ cards = NewDeck /\ op = "NewDeck" /\ arg = NoArg
          /\ \/ twin = [NoTwin EXCEPT !.cards = NewDeck, !.op = "NewDeck", !.same = TRUE]
             \/ twin = [NoTwin EXCEPT !.cards = NewDeckFromCards(Reversed(Cards(NewDeck))),
                                      !.op = "NewDeckFromCards"]

TwinShuffleWithSeed ==
    /\ op = "ShuffleWithSeed"
    /\ twin.op \in Constructors
    /\ \E seed \in Seeds :
        twin' = [twin EXCEPT !.cards = ShuffleWithSeed(twin.cards, seed),
                             !.prev = twin.cards, !.op = "ShuffleWithSeed", !.n = seed]
    /\ UNCHANGED <<cards, prev, op, arg, ret, mem>>

TwinDealN ==
    /\ op = "DealN"
    /\ twin.op = "ShuffleWithSeed"
    /\ LET r == DealN(twin.cards, arg.n)
       IN  twin' = [twin EXCEPT !.cards = r.cards, !.prev = twin.cards, !.op = "DealN",
                                !.n = arg.n, !.ret = r.ret, !.err = r.err]
    /\ UNCHANGED <<cards, prev, op, arg, ret, mem>>

NextPair ==
    \/ op \in Constructors /\ twin.op \in Constructors /\ CallShuffleWithSeed
    \/ TwinShuffleWithSeed
    \/ op = "ShuffleWithSeed" /\ twin.op = "ShuffleWithSeed" /\ twin.n = arg.n /\ CallDealN
    \/ TwinDealN

SpecPair == InitPair /\ [][NextPair]_vars

---------------------------------------------------------------------------
(* Slices in memory: what Go's slice expressions, make, copy and append do *)
(* to the arrays.  h is the heap, a function from Arrays to the sequence   *)
(* of elements of each array; indices of slices are 0-based as in Go.      *)

\* Decks in memory hold the two cards of PairCards and grow to HeapLen
\* cards; the 52 cards of Reset come on top of that.
HeapLen == MaxLen - 2

\* cap(s)
Cap(h, s) == Len(h[s.arr]) - s.off

\* The elements of s, first to last.
View(h, s) == [k \in 1..s.len |-> h[s.arr][s.off + k]]

\* s[lo:hi]
Reslice(s, lo, hi) == [arr |-> s.arr, off |-> s.off + lo, len |-> hi - lo]

\* The elements of a new array: n zero values.
Zeros(n) == [k \in 1..n |-> ZeroCard]

\* make([]Card, n, c) in the array a.
Make(h, a, n, c) ==
    [heap |-> [h EXCEPT ![a] = Zeros(c)], out |-> [arr |-> a, off |-> 0, len |-> n]]

\* s[i] = card
Store(h, s, i, card) == [h EXCEPT ![s.arr][s.off + i + 1] = card]

\* The heap after the elements of s were set to those of the sequence vals,
\* which is no longer than s.
Write(h, s, vals) ==
    LET old == h[s.arr]
    IN  [h EXCEPT ![s.arr] =
            [k \in 1..Len(old) |->
                IF k > s.off /\ k <= s.off + Len(vals) THEN vals[k - s.off] ELSE old[k]]]

\* copy(dst, src): the first min(len(dst), len(src)) elements, moved as
\* memmove moves them, so that overlapping slices do no harm.
Copy(h, dst, src) ==
    LET n == IF dst.len < src.len THEN dst.len ELSE src.len
    IN  Write(h, dst, SubSeq(View(h, src), 1, n))

\* The capacities the runtime may give the new array when an append of
\* needed elements in all does not fit in capacity old: the language asks
\* for enough room only, the runtime doubles small slices.
GrowthCaps(old, needed) == {needed} \cup {c \in {2 * old} : c > needed}

\* append(s, more...), more a sequence of values: in place when the capacity
\* of s allows it, otherwise in the new array a of capacity newcap.
GoAppend(h, s, more, a, newcap) ==
    LET total == s.len + Len(more)
    IN  IF total <= Cap(h, s)
        THEN [heap |-> Write(h, Reslice(s, s.len, total), more),
              out |-> [s EXCEPT !.len = total]]
        ELSE [heap |-> [h EXCEPT ![a] = View(h, s) \o more \o Zeros(newcap - total)],
              out |-> [arr |-> a, off |-> 0, len |-> total]]

---------------------------------------------------------------------------
(* deck.go in memory: every constructor and method as the change it makes  *)
(* to the heap and to the slice d.cards, and the slice it returns (out).   *)
(* m is the memory before the call.                                        *)

\* The array a call allocates.
NewArray == 3

\* A call that neither writes nor returns a slice.
Untouched(m) == [heap |-> m.heap, deck |-> m.deck, out |-> NoSlice]

MemNewEmptyDeck(m) ==
    LET mk == Make(m.heap, NewArray, 0, 0)
    IN  [heap |-> mk.heap, deck |-> mk.out, out |-> NoSlice]

\* src is the caller's slice.
MemNewDeckFromCards(m, src) ==
    LET mk == Make(m.heap, NewArray, src.len, src.len)
    IN  [heap |-> Copy(mk.heap, mk.out, src), deck |-> mk.out, out |-> NoSlice]

\* Cards that returns d.cards itself.
MemCards_ReturnsDeckSlice(m) == [heap |-> m.heap, deck |-> m.deck, out |-> m.deck]

MemCards(m) ==
    LET mk == Make(m.heap, NewArray, m.deck.len, m.deck.len)
    IN  [heap |-> Copy(mk.heap, mk.out, m.deck), deck |-> m.deck, out |-> mk.out]

MemDeal(m) ==
    IF m.deck.len = 0 THEN Untouched(m)
    ELSE [heap |-> m.heap, deck |-> Reslice(m.deck, 1, m.deck.len), out |-> NoSlice]

MemDealN(m, n) ==
    IF n < 0 \/ n > m.deck.len THEN Untouched(m)
    ELSE LET mk == Make(m.heap, NewArray, n, n)
         IN  [heap |-> Copy(mk.heap, mk.out, Reslice(m.deck, 0, n)),
              deck |-> Reslice(m.deck, n, m.deck.len), out |-> mk.out]

MemPeekN(m, n) ==
    IF n < 0 \/ n > m.deck.len THEN Untouched(m)
    ELSE LET mk == Make(m.heap, NewArray, n, n)
         IN  [heap |-> Copy(mk.heap, mk.out, Reslice(m.deck, 0, n)),
              deck |-> m.deck, out |-> mk.out]

MemAddCard(m, card, newcap) ==
    LET ap == GoAppend(m.heap, m.deck, <<card>>, NewArray, newcap)
    IN  [heap |-> ap.heap, deck |-> ap.out, out |-> NoSlice]

\* src is the caller's slice.
MemAddCards(m, src, newcap) ==
    LET ap == GoAppend(m.heap, m.deck, View(m.heap, src), NewArray, newcap)
    IN  [heap |-> ap.heap, deck |-> ap.out, out |-> NoSlice]

MemInsertCard(m, card, position, newcap) ==
    IF position < 0 \/ position > m.deck.len THEN Untouched(m)
    ELSE LET ap == GoAppend(m.heap, m.deck, <<ZeroCard>>, NewArray, newcap)
             d == ap.out
             moved == Copy(ap.heap, Reslice(d, position + 1, d.len),
                           Reslice(d, position, d.len))
         IN  [heap |-> Store(moved, d, position, card), deck |-> d, out |-> NoSlice]

\* append(d.cards[:i], d.cards[i+1:]...) always has room in d.cards[:i].
MemRemoveCard(m, card) ==
    LET cs == View(m.heap, m.deck)
        hits == {i \in 0..(Len(cs) - 1) :
                    cs[i + 1].Suit = card.Suit /\ cs[i + 1].Rank = card.Rank}
    IN  IF hits = {} THEN Untouched(m)
        ELSE LET i == CHOOSE x \in hits : \A y \in hits : x <= y
                 ap == GoAppend(m.heap, Reslice(m.deck, 0, i),
                                View(m.heap, Reslice(m.deck, i + 1, m.deck.len)),
                                NewArray, 0)
             IN  [heap |-> ap.heap, deck |-> ap.out, out |-> NoSlice]

\* The swaps of Sort are made in d.cards.
MemSort(m) ==
    [heap |-> Write(m.heap, m.deck, Sort(View(m.heap, m.deck))),
     deck |-> m.deck, out |-> NoSlice]

\* The swaps of Shuffle are made in d.cards.
MemShuffle(m, draws) ==
    [heap |-> Write(m.heap, m.deck, Shuffle(View(m.heap, m.deck), draws)),
     deck |-> m.deck, out |-> NoSlice]

\* The swaps of ShuffleWithSeed are made in d.cards.
MemShuffleWithSeed(m, seed) ==
    [heap |-> Write(m.heap, m.deck, ShuffleWithSeed(View(m.heap, m.deck), seed)),
     deck |-> m.deck, out |-> NoSlice]

\* Clear that keeps the top card: d.cards = d.cards[:1].
MemClear_KeepsTop(m) ==
    [heap |-> m.heap, deck |-> Reslice(m.deck, 0, IF m.deck.len > 0 THEN 1 ELSE 0),
     out |-> NoSlice]

\* d.cards = d.cards[:0]
MemClear(m) == [heap |-> m.heap, deck |-> Reslice(m.deck, 0, 0), out |-> NoSlice]

\* d.cards = newDeck.cards, the slice NewDeck has filled.
MemReset(m) ==
    [heap |-> [m.heap EXCEPT ![NewArray] = NewDeck],
     deck |-> [arr |-> NewArray, off |-> 0, len |-> Len(NewDeck)], out |-> NoSlice]

---------------------------------------------------------------------------
(* One deck in memory and a caller who holds on to a slice: one the deck   *)
(* returned, or one of the caller's own that is handed to the deck.  The   *)
(* caller writes to the elements of that slice between the calls.          *)

\* The memory with its garbage collected and its arrays numbered anew: the
\* array of d.cards becomes array 1, another array of the caller array 2,
\* arrays no slice points into are dropped, and so is the part of an array
\* before every slice into it, which nothing can reach any more.
Normalise(m) ==
    LET d == m.deck.arr
        c == m.held.arr
        shared == c = d
        lowD == IF shared /\ m.held.off < m.deck.off THEN m.held.off ELSE m.deck.off
        lowC == IF shared THEN lowD ELSE m.held.off
    IN  [m EXCEPT
            !.heap = [a \in Arrays |->
                        IF a = 1 THEN SubSeq(m.heap[d], lowD + 1, Len(m.heap[d]))
                        ELSE IF a = 2 /\ c # 0 /\ ~shared
                        THEN SubSeq(m.heap[c], lowC + 1, Len(m.heap[c]))
                        ELSE <<>>],
            !.deck = [arr |-> 1, off |-> m.deck.off - lowD, len |-> m.deck.len],
            !.held = IF c = 0 THEN NoSlice
                     ELSE [arr |-> IF shared THEN 1 ELSE 2,
                           off |-> m.held.off - lowC, len |-> m.held.len]]

\* The record of one call on the deck in memory: r is what the method made
\* of the memory, held and from are the caller's slice afterwards.
Stepped(name, r, held, from) ==
    LET after == Normalise([heap |-> r.heap, deck |-> r.deck, held |-> held, from |-> from,
                            heldWas |-> View(mem.heap, mem.held),
                            heldNow |-> View(r.heap, mem.held)])
    IN  /\ op' = name
        /\ mem' = after
        /\ prev' = cards
        /\ cards' = View(after.heap, after.deck)
        /\ UNCHANGED <<arg, ret, twin>>

\* The deck is one the caller's calls change card by card: d.cards is not a
\* slice of the array of 52 cards that Reset allocates.
SmallHeap == Cap(mem.heap, mem.deck) <= 2 * HeapLen

\* The call returned a slice: a caller with free hands keeps it, unless it
\* holds cards of the 52 of Reset.
Returned(name, r) ==
    IF mem.held = NoSlice /\ r.out # NoSlice /\ SmallHeap
    THEN Stepped(name, r, r.out, name)
    ELSE Stepped(name, r, mem.held, mem.from)

\* The caller has free hands.
FreeHands == mem.held = NoSlice

\* The call returned no slice.
Done(name, r) == Stepped(name, r, mem.held, mem.from)

\* The caller's own step: the deck is not called.
CallerStepped(name, heap, held, from) ==
    LET after == Normalise([heap |-> heap, deck |-> mem.deck, held |-> held, from |-> from,
                            heldWas |-> <<>>, heldNow |-> <<>>])
    IN  /\ op' = name
        /\ mem' = after
        /\ prev' = cards
        /\ cards' = View(after.heap, after.deck)
        /\ UNCHANGED <<arg, ret, twin>>

InitHeap ==
    LET r == MemNewEmptyDeck(NoMem)
    IN  /\ mem = Normalise([NoMem EXCEPT !.heap = r.heap, !.deck = r.deck])
        /\ cards = <<>>
        /\ prev = <<>>
        /\ op = "NewEmptyDeck"
        /\ arg = NoArg
        /\ ret = NoRet
        /\ twin = NoTwin

\* cards := []Card{...}
CallerMakes ==
    /\ mem.held = NoSlice
    /\ \E cs \in PairLists :
        /\ Len(cs) \in 1..HeapLen
        /\ CallerStepped("make", [mem.heap EXCEPT ![NewArray] = cs],
                         [arr |-> NewArray, off |-> 0, len |-> Len(cs)], "caller")

\* cards[i] = c
CallerWrites ==
    /\ mem.held # NoSlice
    /\ \E i \in 0..(mem.held.len - 1), c \in PairCards :
        CallerStepped("write", Store(mem.heap, mem.held, i, c), mem.held, mem.from)

\* The caller lets go of the slice.
CallerForgets ==
    /\ mem.held # NoSlice
    /\ CallerStepped("forget", mem.heap, NoSlice, "none")

CallMemNewEmptyDeck == Done("NewEmptyDeck", MemNewEmptyDeck(mem))

CallMemNewDeckFromCards ==
    /\ mem.held # NoSlice
    /\ Stepped("NewDeckFromCards", MemNewDeckFromCards(mem, mem.held),
               mem.held, "NewDeckFromCards")

CallMemCards == Returned("Cards", MemCards(mem))

CallMemDeal == Done("Deal", MemDeal(mem))

CallMemDealN == \E n \in 0..mem.deck.len : Returned("DealN", MemDealN(mem, n))

CallMemPeekN ==
    \E n \in 0..HeapLen : n <= mem.deck.len /\ Returned("PeekN", MemPeekN(mem, n))

CallMemAddCard ==
    /\ mem.deck.len < HeapLen
    /\ \E c \in PairCards, newcap \in GrowthCaps(Cap(mem.heap, mem.deck), mem.deck.len + 1) :
        Done("AddCard", MemAddCard(mem, c, newcap))

CallMemAddCards ==
    /\ mem.held # NoSlice
    /\ mem.deck.len + mem.held.len <= HeapLen
    /\ \E newcap \in GrowthCaps(Cap(mem.heap, mem.deck), mem.deck.len + mem.held.len) :
        Stepped("AddCards", MemAddCards(mem, mem.held, newcap), mem.held, "AddCards")

CallMemInsertCard ==
    /\ mem.deck.len < HeapLen
    /\ \E c \in PairCards, position \in 0..mem.deck.len,
          newcap \in GrowthCaps(Cap(mem.heap, mem.deck), mem.deck.len + 1) :
        Done("InsertCard", MemInsertCard(mem, c, position, newcap))

CallMemRemoveCard == \E c \in PairCards : Done("RemoveCard", MemRemoveCard(mem, c))

CallMemSort == Done("Sort", MemSort(mem))

CallMemShuffle ==
    \E draws \in Draws(mem.deck.len) : Done("Shuffle", MemShuffle(mem, draws))

CallMemShuffleWithSeed ==
    \E seed \in Seeds : Done("ShuffleWithSeed", MemShuffleWithSeed(mem, seed))

CallMemClear == Done("Clear", MemClear(mem))

CallMemReset == Done("Reset", MemReset(mem))

NextHeap ==
    \/ CallerMakes
    \/ CallerWrites
    \/ CallerForgets
    \/ CallMemNewEmptyDeck
    \/ CallMemNewDeckFromCards
    \/ FreeHands /\ CallMemCards      \* the caller asks for cards to keep them
    \/ FreeHands /\ CallMemPeekN
    \/ CallMemClear
    \/ CallMemReset
    \/ SmallHeap /\ CallMemDeal
    \/ SmallHeap /\ CallMemDealN
    \/ SmallHeap /\ CallMemAddCard
    \/ SmallHeap /\ CallMemAddCards
    \/ SmallHeap /\ CallMemInsertCard
    \/ SmallHeap /\ CallMemRemoveCard
    \/ SmallHeap /\ CallMemSort
    \/ SmallHeap /\ CallMemShuffle
    \/ SmallHeap /\ CallMemShuffleWithSeed

SpecHeap == InitHeap /\ [][NextHeap]_vars

---------------------------------------------------------------------------
(* One deck in memory that is cleared, and beside it a second deck that    *)
(* NewEmptyDeck makes at that moment and that gets the same calls from     *)
(* then on.  The second deck has no array with cards of an earlier time.   *)

\* The most cards the deck that is cleared holds.
ClearLen == MaxLen - 1

\* The second deck as NewEmptyDeck makes it.
FreshTwin == [NoTwin EXCEPT !.op = "NewEmptyDeck", !.cards = NewEmptyDeck]

\* There is a second deck: the deck has been cleared.
Tracked == twin.op # "none"

\* The second deck after a call that made after of its cards.
TwinAfter(after) == IF Tracked THEN [twin EXCEPT !.prev = twin.cards, !.cards = after] ELSE twin

\* The record of one call: r is what the method made of the memory, tw is
\* the second deck afterwards.
ClearStepped(name, r, tw) ==
    LET after == Normalise([NoMem EXCEPT !.heap = r.heap, !.deck = r.deck])
    IN  /\ op' = name
        /\ mem' = after
        /\ prev' = cards
        /\ cards' = View(after.heap, after.deck)
        /\ twin' = tw
        /\ UNCHANGED <<arg, ret>>

\* The memory with the caller's cards cs in an array of their own, and the
\* slice of them.
WithArgument(m, cs) == [m EXCEPT !.heap[2] = cs]

Argument(cs) == [arr |-> 2, off |-> 0, len |-> Len(cs)]

\* The deck starts as NewEmptyDeck makes it; there is no second deck yet.
InitClear == InitHeap

ClearNewEmptyDeck == ClearStepped("NewEmptyDeck", MemNewEmptyDeck(mem), NoTwin)

ClearAddCard ==
    /\ mem.deck.len < ClearLen
    /\ \E c \in PairCards, newcap \in GrowthCaps(Cap(mem.heap, mem.deck), mem.deck.len + 1) :
        ClearStepped("AddCard", MemAddCard(mem, c, newcap), TwinAfter(AddCard(twin.cards, c)))

ClearAddCards ==
    \E cs \in PairLists :
        /\ Len(cs) >= 1
        /\ mem.deck.len + Len(cs) <= ClearLen
        /\ \E newcap \in GrowthCaps(Cap(mem.heap, mem.deck), mem.deck.len + Len(cs)) :
            ClearStepped("AddCards",
                         MemAddCards(WithArgument(mem, cs), Argument(cs), newcap),
                         TwinAfter(AddCards(twin.cards, cs)))

ClearInsertCard ==
    /\ mem.deck.len < ClearLen
    /\ \E c \in PairCards, position \in 0..mem.deck.len,
          newcap \in GrowthCaps(Cap(mem.heap, mem.deck), mem.deck.len + 1) :
        ClearStepped("InsertCard", MemInsertCard(mem, c, position, newcap),
                     TwinAfter(InsertCard(twin.cards, c, position).cards))

ClearDeal == ClearStepped("Deal", MemDeal(mem), TwinAfter(Deal(twin.cards).cards))

ClearClear == ClearStepped("Clear", MemClear(mem), FreshTwin)

NextClear ==
    \/ ClearNewEmptyDeck
    \/ ClearAddCard
    \/ ClearAddCards
    \/ ClearInsertCard
    \/ ClearDeal
    \/ ClearClear

SpecClear == InitClear /\ [][NextClear]_vars

---------------------------------------------------------------------------
(* deck.go: the expressions of the methods that the run time checks, each  *)
(* with the values it has when the method reaches it.  An index expression *)
(* s[i] faults unless 0 <= i < len(s); a slice expression s[lo:hi] faults  *)
(* unless 0 <= lo <= hi <= cap(s), and len(s) stands for cap(s) here,      *)
(* which is at least as large; make([]Card, n) faults when n < 0 and       *)
(* r.Intn(n) when n <= 0.                                                  *)

\* s[i], where len(s) = size
IndexExpr(i, size) == [kind |-> "index", lo |-> i, hi |-> i, size |-> size]

\* s[lo:hi], where len(s) = size
SliceExpr(lo, hi, size) == [kind |-> "slice", lo |-> lo, hi |-> hi, size |-> size]

\* make([]Card, n)
MakeExpr(n) == [kind |-> "make", lo |-> n, hi |-> n, size |-> n]

\* r.Intn(n)
IntnExpr(n) == [kind |-> "Intn", lo |-> n, hi |-> n, size |-> n]

\* The run time lets the expression pass.
InRange(e) ==
    CASE e.kind = "index" -> 0 <= e.lo /\ e.lo < e.size
      [] e.kind = "slice" -> 0 <= e.lo /\ e.lo <= e.hi /\ e.hi <= e.size
      [] e.kind = "make" -> e.lo >= 0
      [] e.kind = "Intn" -> e.lo > 0

\* d.cards[0] and d.cards[1:]
DealExprs(cs) ==
    IF IsEmpty(cs) THEN {}
    ELSE {IndexExpr(0, Len(cs)), SliceExpr(1, Len(cs), Len(cs))}

\* DealN without the test n > len(d.cards).
DealNExprs_Unchecked(cs, n) ==
    IF n < 0 THEN {}
    ELSE {MakeExpr(n), SliceExpr(0, n, Len(cs)), SliceExpr(n, Len(cs), Len(cs))}

\* make([]Card, n), d.cards[:n] and d.cards[n:]
DealNExprs(cs, n) ==
    IF n < 0 THEN {}
    ELSE IF n > Len(cs) THEN {}
    ELSE {MakeExpr(n), SliceExpr(0, n, Len(cs)), SliceExpr(n, Len(cs), Len(cs))}

\* d.cards[0]
PeekExprs(cs) == IF IsEmpty(cs) THEN {} ELSE {IndexExpr(0, Len(cs))}

\* make([]Card, n) and d.cards[:n]
PeekNExprs(cs, n) ==
    IF n < 0 THEN {}
    ELSE IF n > Len(cs) THEN {}
    ELSE {MakeExpr(n), SliceExpr(0, n, Len(cs))}

\* d.cards[position+1:], d.cards[position:] and d.cards[position], of the
\* d.cards that append has made one longer.
InsertCardExprs(cs, position) ==
    IF position < 0 \/ position > Len(cs) THEN {}
    ELSE LET size == Len(cs) + 1
         IN  {SliceExpr(position + 1, size, size), SliceExpr(position, size, size),
              IndexExpr(position, size)}

\* d.cards[:i] and d.cards[i+1:] at the first i whose card matches.
RemoveCardExprs(cs, card) ==
    LET hits == {i \in 0..(Len(cs) - 1) :
                    cs[i + 1].Suit = card.Suit /\ cs[i + 1].Rank = card.Rank}
    IN  IF hits = {} THEN {}
        ELSE LET i == CHOOSE k \in hits : \A h \in hits : k <= h
             IN  {SliceExpr(0, i, Len(cs)), SliceExpr(i + 1, Len(cs), Len(cs))}

\* r.Intn(i + 1), d.cards[i] and d.cards[j] for i from len(d.cards) - 1 down
\* to 1.
ShuffleExprs(cs, draws) ==
    UNION {{IntnExpr(i + 1), IndexExpr(i, Len(cs)), IndexExpr(draws[i], Len(cs))} :
              i \in 1..(Len(cs) - 1)}

\* The loop of ShuffleWithSeed again; l holds the index i, the generator's
\* state r and the expressions met so far.
RECURSIVE SeedExprsLoop(_, _)
SeedExprsLoop(size, l) ==
    IF l.i > 0
    THEN LET d == Intn(l.r, l.i + 1)
         IN  SeedExprsLoop(size,
                 [i |-> l.i - 1, r |-> d.next,
                  exprs |-> l.exprs \cup {IntnExpr(l.i + 1), IndexExpr(l.i, size),
                                          IndexExpr(d.val, size)}])
    ELSE l.exprs

ShuffleWithSeedExprs(cs, seed) ==
    SeedExprsLoop(Len(cs), [i |-> Len(cs) - 1, r |-> NewSource(seed), exprs |-> {}])

\* d.cards[j] and d.cards[j+1] for i from 0 while i < len(d.cards) - 1 and j
\* from 0 while j < len(d.cards) - i - 1.
SortExprs(cs) ==
    UNION {{IndexExpr(j, Len(cs)), IndexExpr(j + 1, Len(cs))} :
              j \in UNION {0..(Len(cs) - i - 2) : i \in 0..(Len(cs) - 2)}}

---------------------------------------------------------------------------
(* A deck that is only shuffled, as in TestShuffle.                        *)

NextShuffle == CallShuffle

SpecShuffle == Init /\ [][NextShuffle]_vars

---------------------------------------------------------------------------
(* The full deck, as in TestSort: NewDeck, then shuffles, then Sort.       *)

\* Some of the draws Shuffle may make on a deck of n cards: every j is 0, or
\* every j is i, or i - 1, and so on.
SomeDraws(n) == {[i \in 1..(n - 1) |-> (k * i) % (i + 1)] : k \in 0..(2 * MaxSeed)}

\* The deck is in the order of NewDeck or was so one call ago: the shuffles
\* come at most two in a row.
LatelyOrdered == cards = NewDeck \/ prev = NewDeck

InitFull ==
    /\ cards = NewDeck
    /\ op = "NewDeck"
    /\ arg = NoArg
    /\ prev = <<>>
    /\ ret = NoRet
    /\ twin = NoTwin
    /\ mem = NoMem

FullShuffle ==
    \E draws \in SomeDraws(Len(cards)) :
        Called("Shuffle", NoArg, NoRet, Shuffle(cards, draws))

FullShuffleWithSeed ==
    \E seed \in Seeds :
        Called("ShuffleWithSeed", [NoArg EXCEPT !.n = seed], NoRet,
               ShuffleWithSeed(cards, seed))

NextFull ==
    \/ LatelyOrdered /\ FullShuffle
    \/ LatelyOrdered /\ FullShuffleWithSeed
    \/ CallSort
    \/ CallReset

SpecFull == InitFull /\ [][NextFull]_vars

---------------------------------------------------------------------------
(* The vocabulary of the properties.                                       *)

\* The error kinds of the specification, as the messages that carry them.
EmptyDeck == {ErrDealEmpty, ErrPeekEmpty}

InvalidCount == {ErrDealNegative, ErrPeekNegative}

InsufficientCards == {ErrNotEnough}

InvalidPosition == {ErrPosition}

\* How often card c occurs in the sequence s.
Count(c, s) == Cardinality({k \in 1..Len(s) : s[k] = c})

Range(s) == {s[k] : k \in 1..Len(s)}

\* a and b hold the same cards, each as often.
SameMultiset(a, b) ==
    /\ Len(a) = Len(b)
    /\ \A c \in Range(a) \cup Range(b) : Count(c, a) = Count(c, b)

\* The order of the suits and of the ranks that the specification states.
SuitOrder == <<Spades, Hearts, Diamonds, Clubs>>

RankOrder == <<Ace, Two, Three, Four, Five, Six, Seven, Eight, Nine, Ten, Jack, Queen, King>>

SuitPos(suit) == CHOOSE k \in 1..Len(SuitOrder) : SuitOrder[k] = suit

RankPos(rank) == CHOOSE k \in 1..Len(RankOrder) : RankOrder[k] = rank

\* c1 is not after c2: suit first, then rank.
NotAfter(c1, c2) ==
    \/ SuitPos(c1.Suit) < SuitPos(c2.Suit)
    \/ c1.Suit = c2.Suit /\ RankPos(c1.Rank) <= RankPos(c2.Rank)

\* s without its first n elements.
Drop(s, n) == [k \in 1..(Len(s) - n) |-> s[k + n]]

\* The first n elements of s.
Take(s, n) == [k \in 1..n |-> s[k]]

---------------------------------------------------------------------------
(* Dealing                                                                 *)

\* C1: Deal() on a deck of size n > 0 returns the card that was at index 0
\* and leaves the previous sequence without its first element; on a deck of
\* size 0 it fails with the EmptyDeck error.
C1_Deal ==
    op = "Deal" =>
        IF Len(prev) > 0
        THEN /\ ret.err = nil
             /\ ret.card = prev[1]
             /\ Len(cards) = Len(prev) - 1
             /\ \A k \in 1..Len(cards) : cards[k] = prev[k + 1]
        ELSE ret.err \in EmptyDeck

\* A Deal from a deck of three or more cards, of which two differ.
C1_Witness ==
    /\ op = "Deal"
    /\ Len(prev) >= 3
    /\ prev[1] # prev[2]
    /\ ret.err = nil

\* C2: DealN(n) with 0 <= n <= Size() returns the first n cards in deck
\* order and leaves the previous sequence with those n cards removed from
\* the front.
C2_DealN ==
    (op = "DealN" /\ 0 <= arg.n /\ arg.n <= Len(prev)) =>
        /\ ret.err = nil
        /\ ret.cards = Take(prev, arg.n)
        /\ cards = Drop(prev, arg.n)
        /\ Len(cards) = Len(prev) - arg.n

\* A DealN of two cards that differ, from a deck that keeps some.
C2_Witness ==
    /\ op = "DealN"
    /\ arg.n = 2
    /\ Len(prev) >= 3
    /\ prev[1] # prev[2]
    /\ ret.err = nil
    /\ Len(cards) >= 1

\* The failing cases that C3 lists.
FailingCall ==
    \/ op \in {"Deal", "Peek"} /\ Len(prev) = 0
    \/ op \in {"DealN", "PeekN"} /\ (arg.n < 0 \/ arg.n > Len(prev))
    \/ op = "InsertCard" /\ (arg.n < 0 \/ arg.n > Len(prev))

\* C3: every operation that fails leaves the deck's card sequence exactly
\* as it was before the call.
C3_FailureLeavesDeck ==
    (FailingCall \/ ret.err # nil) => (ret.err # nil /\ cards = prev)

\* An InsertCard past the bottom of a deck that holds cards.
C3_Witness ==
    /\ op = "InsertCard"
    /\ arg.n = Len(prev) + 1
    /\ Len(prev) >= 2
    /\ ret.err # nil

\* C4: DealN(n) and PeekN(n) fail with InvalidCount exactly when n < 0,
\* with InsufficientCards exactly when n > Size(), and otherwise succeed;
\* with n = 0 they succeed on any deck, return an empty sequence and do not
\* change the deck.
C4_CountErrors ==
    op \in {"DealN", "PeekN"} =>
        /\ ret.err \in InvalidCount <=> arg.n < 0
        /\ ret.err \in InsufficientCards <=> arg.n > Len(prev)
        /\ ret.err = nil <=> (0 <= arg.n /\ arg.n <= Len(prev))
        /\ arg.n = 0 => (ret.err = nil /\ ret.cards = <<>> /\ cards = prev)

\* PeekN(0) on the empty deck.
C4_Witness ==
    /\ op = "PeekN"
    /\ arg.n = 0
    /\ Len(prev) = 0
    /\ ret.err = nil

---------------------------------------------------------------------------
(* Construction                                                            *)

\* C5: NewDeck() returns exactly 52 cards, each (Suit, Rank) combination
\* once (13 of each suit, 4 of each rank), ordered by suit in the order
\* Spades, Hearts, Diamonds, Clubs and within a suit by rank from Ace to
\* King.
C5_NewDeck ==
    op = "NewDeck" =>
        /\ Len(cards) = 52
        /\ \A si \in 1..4, ri \in 1..13 :
            /\ Count(NewCard(SuitOrder[si], RankOrder[ri]), cards) = 1
            /\ cards[13 * (si - 1) + ri] = NewCard(SuitOrder[si], RankOrder[ri])
        /\ \A si \in 1..4 :
            Cardinality({k \in 1..Len(cards) : cards[k].Suit = SuitOrder[si]}) = 13
        /\ \A ri \in 1..13 :
            Cardinality({k \in 1..Len(cards) : cards[k].Rank = RankOrder[ri]}) = 4

\* The deck NewDeck returned, from the Ace of Spades to the King of Clubs.
C5_Witness ==
    /\ op = "NewDeck"
    /\ Len(cards) = 52
    /\ cards[1] = NewCard(Spades, Ace)
    /\ cards[14] = NewCard(Hearts, Ace)
    /\ cards[52] = NewCard(Clubs, King)

---------------------------------------------------------------------------
(* Shuffling, sorting, filtering                                           *)

\* C8: Shuffle() and ShuffleWithSeed(seed) preserve the multiset of cards
\* and the size of the deck, for every deck and every random outcome.
C8_ShufflePermutes ==
    op \in {"Shuffle", "ShuffleWithSeed"} => SameMultiset(cards, prev)

\* A Shuffle that moved cards in a deck holding one card twice.
C8_Witness ==
    /\ op = "Shuffle"
    /\ cards # prev
    /\ Len(prev) >= 3
    /\ \E i, j \in 1..Len(prev) : i # j /\ prev[i] = prev[j]
    /\ \E i, j \in 1..Len(prev) : prev[i] # prev[j]

\* C9: after Sort() every adjacent pair of cards is non-decreasing in the
\* order suit first (Spades < Hearts < Diamonds < Clubs), then rank, and the
\* result is a permutation of the sequence before the call.
C9_Sort ==
    op = "Sort" =>
        /\ \A k \in 1..(Len(cards) - 1) : NotAfter(cards[k], cards[k + 1])
        /\ SameMultiset(cards, prev)

\* A Sort of a deck whose cards were in descending order, some card twice.
C9_Witness ==
    /\ op = "Sort"
    /\ Len(prev) >= 4
    /\ \A k \in 1..(Len(prev) - 1) : NotAfter(prev[k + 1], prev[k])
    /\ \E k \in 1..(Len(prev) - 1) : prev[k] = prev[k + 1]
    /\ Cardinality(Range(prev)) >= 3
    /\ cards # prev

\* C10: Filter(p) returns a new deck that is exactly the subsequence of the
\* receiver's cards for which p is true, in their original order, and the
\* receiver is unchanged.
C10_Filter ==
    op = "Filter" =>
        /\ ret.cards = SelectSeq(prev, LAMBDA c : c \in arg.pred)
        /\ \A k \in 1..Len(ret.cards) : ret.cards[k] \in arg.pred
        /\ Len(ret.cards) = Cardinality({k \in 1..Len(prev) : prev[k] \in arg.pred})
        /\ cards = prev

\* A Filter that kept some cards, two of them different, and dropped others.
C10_Witness ==
    /\ op = "Filter"
    /\ Len(ret.cards) >= 2
    /\ ret.cards[1] # ret.cards[2]
    /\ Len(ret.cards) < Len(prev)
    /\ \E k \in 1..Len(prev) : prev[k] \notin arg.pred

---------------------------------------------------------------------------
(* Shuffling with a seed, on two decks                                     *)

\* The permutations of 1..n, for the deck sizes whose permutations are
\* enumerated.
Perms ==
    [n \in 0..MaxLen |->
        {p \in [1..n -> 1..n] : \A a, b \in 1..n : a # b => p[a] # p[b]}]

\* Both decks were last shuffled, with the same seed.
BothShuffledAlike ==
    /\ op = "ShuffleWithSeed"
    /\ twin.op = "ShuffleWithSeed"
    /\ twin.n = arg.n

C7_EqualSizeSameOrder ==
    (BothShuffledAlike /\ Len(twin.prev) = Len(prev)) => twin.cards = cards

\* C7 as amended: two decks of equal size shuffled with the same seed are
\* rearranged alike: one permutation of the positions takes each deck from
\* its order before the call to its order after it.  For a deck of distinct
\* cards that permutation is read off the first deck.
C7_SameRearrangement ==
    (BothShuffledAlike /\ Len(twin.prev) = Len(prev)) =>
        LET n == Len(prev)
        IN  /\ Len(cards) = n
            /\ Len(twin.cards) = n
            /\ IF n <= MaxLen
               THEN \E p \in Perms[n] :
                        \A i \in 1..n :
                            cards[i] = prev[p[i]] /\ twin.cards[i] = twin.prev[p[i]]
               ELSE Cardinality(Range(prev)) = n =>
                        LET p == [i \in 1..n |-> CHOOSE k \in 1..n : prev[k] = cards[i]]
                        IN  \A i \in 1..n : twin.cards[i] = twin.prev[p[i]]

\* Two full decks in different orders, shuffled with the same seed.
C7_Witness ==
    /\ BothShuffledAlike
    /\ Len(prev) = 52
    /\ Len(twin.prev) = 52
    /\ twin.prev # prev
    /\ cards # prev
    /\ twin.cards # cards

---------------------------------------------------------------------------
(* Removing, inserting, peeking and adding                                 *)

\* The 1-based positions at which the sequence s holds the card c.
Matches(c, s) == {k \in 1..Len(s) : s[k] = c}

\* The least member of a non-empty set of numbers.
Least(S) == CHOOSE k \in S : \A h \in S : k <= h

\* C11: RemoveCard(c) returns true exactly when Contains(c) held before the
\* call.  It then removes the match of lowest index and nothing else: the
\* deck is one card shorter, the cards above the match stay and the cards
\* below it move up by one.  Otherwise the deck is unchanged.  When the deck
\* held c exactly once, c is gone afterwards and a second RemoveCard(c)
\* returns false and leaves the size as it is.
C11_RemoveCard ==
    op = "RemoveCard" =>
        LET c == arg.card
            hits == Matches(c, prev)
        IN  /\ ret.ok <=> Contains(prev, c)
            /\ ret.ok <=> hits # {}
            /\ ret.ok =>
                 /\ Len(cards) = Len(prev) - 1
                 /\ \A k \in 1..Len(cards) :
                        cards[k] = IF k < Least(hits) THEN prev[k] ELSE prev[k + 1]
            /\ ~ret.ok => cards = prev
            /\ Cardinality(hits) = 1 =>
                 /\ ~Contains(cards, c)
                 /\ ~RemoveCard(cards, c).ok
                 /\ Size(RemoveCard(cards, c).cards) = Size(cards)

\* A deck held the removed card twice, below another card.
C11_Witness ==
    /\ op = "RemoveCard"
    /\ ret.ok
    /\ Count(arg.card, prev) = 2
    /\ prev[1] # arg.card
    /\ Len(cards) = Len(prev) - 1

\* C12: InsertCard(c, p) succeeds exactly when 0 <= p <= Size() and fails
\* with InvalidPosition otherwise.  On success the deck has one card more, c
\* is at index p, the cards that were above p are where they were and each
\* card that was at an index i >= p is at i + 1.  After InsertCard(c, 0),
\* Peek() returns c; InsertCard(c, Size()) puts c at the bottom.
C12_InsertCard ==
    op = "InsertCard" =>
        LET c == arg.card
            p == arg.n
            n == Size(prev)
        IN  /\ ret.err = nil <=> (0 <= p /\ p <= n)
            /\ ret.err # nil => ret.err \in InvalidPosition
            /\ ret.err = nil =>
                 /\ Size(cards) = n + 1
                 /\ cards[p + 1] = c
                 /\ \A i \in 0..(n - 1) :
                        IF i < p THEN cards[i + 1] = prev[i + 1]
                        ELSE cards[i + 2] = prev[i + 1]
                 /\ p = 0 => Peek(cards).err = nil /\ Peek(cards).card = c
                 /\ p = n => cards[Size(cards)] = c

\* A card went between the top card and two different cards below it.
C12_Witness ==
    /\ op = "InsertCard"
    /\ ret.err = nil
    /\ arg.n = 1
    /\ Len(prev) = 3
    /\ prev[2] # prev[3]
    /\ cards[2] = arg.card
    /\ cards[4] = prev[3]

\* C13: Peek() and PeekN(n) never change the deck.  Peek() on an empty deck
\* fails with EmptyDeck; otherwise it returns the card at index 0, which is
\* the card a Deal() that follows at once returns.  A PeekN(n) that succeeds
\* returns the cards at indices 0..n-1 in order, which is what a DealN(n)
\* that follows at once returns.
C13_Peek ==
    /\ op = "Peek" =>
         /\ cards = prev
         /\ IsEmpty(prev) => ret.err \in EmptyDeck
         /\ ~IsEmpty(prev) =>
              /\ ret.err = nil
              /\ ret.card = prev[1]
              /\ Deal(cards).err = nil
              /\ Deal(cards).card = ret.card
    /\ op = "PeekN" =>
         /\ cards = prev
         /\ ret.err = nil =>
              /\ Len(ret.cards) = arg.n
              /\ \A i \in 0..(arg.n - 1) : ret.cards[i + 1] = prev[i + 1]
              /\ DealN(cards, arg.n).err = nil
              /\ DealN(cards, arg.n).ret = ret.cards

\* Two cards were peeked at from a deck whose three top cards differ.
C13_Witness ==
    /\ op = "PeekN"
    /\ ret.err = nil
    /\ arg.n = 2
    /\ Len(cards) >= 3
    /\ cards[1] # cards[2]
    /\ cards[2] # cards[3]
    /\ ret.cards = <<cards[1], cards[2]>>

\* C14: AddCard(c) and AddCards(cs) append at the bottom: the new sequence is
\* the previous one followed by c, or by the cards of cs in their order.
\* Every card the deck held keeps its index, so the top card is the one it
\* was, and Contains holds for every card added.
C14_AddAtBottom ==
    /\ op = "AddCard" =>
         /\ Len(cards) = Len(prev) + 1
         /\ \A k \in 1..Len(prev) : cards[k] = prev[k]
         /\ cards[Len(prev) + 1] = arg.card
         /\ Contains(cards, arg.card)
    /\ op = "AddCards" =>
         /\ Len(cards) = Len(prev) + Len(arg.cards)
         /\ \A k \in 1..Len(prev) : cards[k] = prev[k]
         /\ \A j \in 1..Len(arg.cards) :
                /\ cards[Len(prev) + j] = arg.cards[j]
                /\ Contains(cards, arg.cards[j])
    /\ op \in {"AddCard", "AddCards"} /\ ~IsEmpty(prev) =>
         Peek(cards).card = Peek(prev).card

\* Two different cards were added to a deck that had another card on top.
C14_Witness ==
    /\ op = "AddCards"
    /\ Len(arg.cards) = 2
    /\ arg.cards[1] # arg.cards[2]
    /\ Len(prev) = 2
    /\ prev[1] # arg.cards[1]
    /\ cards = <<prev[1], prev[2], arg.cards[1], arg.cards[2]>>

---------------------------------------------------------------------------
(* Reset, round trips, sorting twice, counts and size                      *)

\* C16: Reset() leaves the deck holding exactly the sequence NewDeck()
\* produces, whatever it held before: nothing, part of a deck, a shuffled
\* deck, duplicates or cards beyond the standard 52.
C16_Reset ==
    op = "Reset" =>
        /\ cards = NewDeck
        /\ Len(cards) = Len(SuitOrder) * Len(RankOrder)
        /\ \A s \in 1..Len(SuitOrder), r \in 1..Len(RankOrder) :
               cards[Len(RankOrder) * (s - 1) + r] = NewCard(SuitOrder[s], RankOrder[r])

\* Reset was called on a deck of three cards, two of them the same card and
\* not in sorted order.
C16_Witness ==
    /\ op = "Reset"
    /\ Len(prev) = 3
    /\ prev[2] = prev[3]
    /\ OutOfOrder(prev[1], prev[2])
    /\ Len(cards) = 52

\* The sequence s with its first k elements moved to its end.
RotateLeft(s, k) == [i \in 1..Len(s) |-> s[((i - 1 + k) % Len(s)) + 1]]

\* C17: after a DealN(k) that succeeds, AddCards of the k cards it returned
\* gives a deck of the size and with the multiset of cards the deck had
\* before the DealN: the sequence it had, rotated left by k.
C17_DealNThenAddCards ==
    op = "DealN" /\ ret.err = nil =>
        LET back == AddCards(cards, ret.cards)
        IN  /\ Size(back) = Size(prev)
            /\ SameMultiset(back, prev)
            /\ back = RotateLeft(prev, arg.n)

\* Two of four cards were dealt; putting them back changes the order.
C17_Witness ==
    /\ op = "DealN"
    /\ ret.err = nil
    /\ arg.n = 2
    /\ Len(prev) = 4
    /\ AddCards(cards, ret.cards) = <<prev[3], prev[4], prev[1], prev[2]>>
    /\ AddCards(cards, ret.cards) # prev

\* The sequence s is in non-decreasing order, by suit and then by rank.
InOrder(s) == \A k \in 1..(Len(s) - 1) : NotAfter(s[k], s[k + 1])

\* C18: Sort() is idempotent.  Sorting a deck that is already in
\* non-decreasing order leaves its sequence unchanged, and a second Sort()
\* right after a Sort() changes nothing.
C18_SortIdempotent ==
    op = "Sort" =>
        /\ InOrder(prev) => cards = prev
        /\ Sort(cards) = cards

\* Sort was called on a deck of three different cards already in order.
C18_Witness ==
    /\ op = "Sort"
    /\ Len(prev) = 3
    /\ InOrder(prev)
    /\ prev[1] # prev[2]
    /\ prev[2] # prev[3]
    /\ cards = prev

\* The sum of the values the map m has at the keys in keys.
RECURSIVE SumOver(_, _)
SumOver(m, keys) ==
    IF keys = {} THEN 0
    ELSE LET k == CHOOSE x \in keys : TRUE
         IN  m[k] + SumOver(m, keys \ {k})

\* C19: the keys of the map CountBySuit() returns are exactly the suits that
\* occur in the deck and the value at a suit is the number of cards of that
\* suit; the same holds of CountByRank() and ranks.  No key has the value 0,
\* the values sum to Size(), and the call leaves the deck as it was.
C19_Counts ==
    /\ op = "CountBySuit" =>
         /\ DOMAIN ret.counts = {prev[k].Suit : k \in 1..Len(prev)}
         /\ \A s \in DOMAIN ret.counts :
                /\ ret.counts[s] = Cardinality({k \in 1..Len(prev) : prev[k].Suit = s})
                /\ ret.counts[s] # 0
         /\ SumOver(ret.counts, DOMAIN ret.counts) = Size(prev)
         /\ cards = prev
    /\ op = "CountByRank" =>
         /\ DOMAIN ret.counts = {prev[k].Rank : k \in 1..Len(prev)}
         /\ \A r \in DOMAIN ret.counts :
                /\ ret.counts[r] = Cardinality({k \in 1..Len(prev) : prev[k].Rank = r})
                /\ ret.counts[r] # 0
         /\ SumOver(ret.counts, DOMAIN ret.counts) = Size(prev)
         /\ cards = prev

\* The suits were counted of a deck of one spade and two hearts.
C19_Witness ==
    /\ op = "CountBySuit"
    /\ Len(prev) = 3
    /\ DOMAIN ret.counts = {Spades, Hearts}
    /\ ret.counts[Spades] = 1
    /\ ret.counts[Hearts] = 2

\* C20: in every reachable state Size() is at least 0 and is the length of
\* the sequence Cards() returns, and IsEmpty() holds exactly when Size() is 0.
C20_Size ==
    /\ Size(cards) >= 0
    /\ Size(cards) = Len(Cards(cards))
    /\ IsEmpty(cards) <=> Size(cards) = 0
    /\ Size(prev) = Len(Cards(prev))
    /\ IsEmpty(prev) <=> Size(prev) = 0

\* The last card of a deck was dealt: the deck went from size 1 to empty.
C20_Witness ==
    /\ op = "Deal"
    /\ ret.err = nil
    /\ Size(prev) = 1
    /\ ~IsEmpty(prev)
    /\ IsEmpty(cards)
    /\ Cards(prev) = <<ret.card>>

\* ---------------------------------------------------------------------------
\* Storage of the deck and of the caller
\* ---------------------------------------------------------------------------

\* C15: no slice that crosses the API is stored or returned as it is. The
\* slice a caller holds, whether it was given to NewDeckFromCards or AddCards
\* or came back from Cards, DealN or PeekN, never lies in the array of the
\* deck; a write of the caller into that slice leaves the deck's cards as
\* they were; and no later call on the deck changes what the caller reads in
\* the slice.
C15_NoSharedStorage ==
    /\ mem.held # NoSlice => mem.held.arr # mem.deck.arr
    /\ op = "write" => cards = prev
    /\ op \notin {"make", "write", "forget"} => mem.heldNow = mem.heldWas

\* The caller wrote into the slice Cards returned, which had every card of a
\* deck of two, and now reads other cards in it than the deck has.
C15_Witness ==
    /\ op = "write"
    /\ mem.from = "Cards"
    /\ mem.deck.len >= 2
    /\ mem.held.len = mem.deck.len
    /\ View(mem.heap, mem.held) # cards

\* ---------------------------------------------------------------------------
\* Clear
\* ---------------------------------------------------------------------------

\* The cells of the array of d.cards behind the last card of the deck.
Spare == SubSeq(mem.heap[mem.deck.arr], mem.deck.off + mem.deck.len + 1,
                Len(mem.heap[mem.deck.arr]))

\* C21: Clear leaves a deck of size 0 that is empty, and from then on the
\* deck is the deck that NewEmptyDeck would be after the same AddCard,
\* AddCards, InsertCard and Deal calls: Cards, Peek, Deal and Contains give
\* on it what they give on that deck, which never had the cards of before
\* the Clear.
C21_Clear ==
    /\ op = "Clear" => Size(cards) = 0 /\ IsEmpty(cards)
    /\ Tracked =>
        /\ View(MemCards(mem).heap, MemCards(mem).out) = Cards(twin.cards)
        /\ Peek(cards) = Peek(twin.cards)
        /\ Deal(cards) = Deal(twin.cards)
        /\ \A c \in PairCards : Contains(cards, c) = Contains(twin.cards, c)

\* A card was added to the cleared deck, and the array of d.cards still has,
\* behind that card, a card of before the Clear that the deck does not
\* contain.
C21_Witness ==
    /\ Tracked
    /\ op \in {"AddCard", "InsertCard"}
    /\ Len(cards) = 1
    /\ \E k \in 1..Len(Spare) : Spare[k] # ZeroCard /\ ~Contains(cards, Spare[k])

\* ---------------------------------------------------------------------------
\* The steps of Shuffle and what it can produce
\* ---------------------------------------------------------------------------

\* The sequence s after the swaps of positions swaps[1], swaps[2], ... in turn.
RECURSIVE ApplySwaps(_, _)
ApplySwaps(s, swaps) ==
    IF swaps = <<>> THEN s
    ELSE ApplySwaps(Swap(s, Head(swaps).i, Head(swaps).j), Tail(swaps))

\* The sequence s rearranged by the permutation p of its positions.
Permuted(s, p) == [k \in 1..Len(s) |-> s[p[k]]]

\* C22: on a deck of n cards Shuffle makes max(n - 1, 0) swaps, the k-th of
\* them of the positions i = n - k and some j in 0..i, and its result is the
\* deck after those swaps, so that a deck of 0 or 1 cards stays as it is;
\* over all the choices of the j, the results are exactly the permutations
\* of the deck, and what the call left is one of them.  Said of every deck
\* Shuffle was called on.
C22_Shuffle ==
    op = "Shuffle" =>
        LET n == Len(prev)
            choices == Draws(n)
            permutations == {Permuted(prev, p) : p \in Perms[n]}
        IN  /\ \A draws \in choices :
                LET swaps == ShuffleSwaps(prev, draws)
                    result == Shuffle(prev, draws)
                IN  /\ Len(swaps) = IF n > 1 THEN n - 1 ELSE 0
                    /\ \A k \in 1..Len(swaps) :
                        swaps[k].i = n - k /\ swaps[k].j \in 0..swaps[k].i
                    /\ result = ApplySwaps(prev, swaps)
                    /\ n <= 1 => result = prev
            /\ {Shuffle(prev, draws) : draws \in choices} = permutations
            /\ cards \in permutations

\* Shuffle has turned a deck of MaxLen cards, not all alike, upside down.
C22_Witness ==
    /\ op = "Shuffle"
    /\ Len(prev) = MaxLen
    /\ cards # prev
    /\ cards = [k \in 1..MaxLen |-> prev[MaxLen + 1 - k]]

\* ---------------------------------------------------------------------------
\* No faults
\* ---------------------------------------------------------------------------

\* The expressions the call that was made last came to.
ExprsOfCall ==
    CASE op = "Deal" -> DealExprs(prev)
      [] op = "DealN" -> DealNExprs(prev, arg.n)
      [] op = "Peek" -> PeekExprs(prev)
      [] op = "PeekN" -> PeekNExprs(prev, arg.n)
      [] op = "InsertCard" -> InsertCardExprs(prev, arg.n)
      [] op = "RemoveCard" -> RemoveCardExprs(prev, arg.card)
      [] op = "Shuffle" -> UNION {ShuffleExprs(prev, draws) : draws \in Draws(Len(prev))}
      [] op = "ShuffleWithSeed" -> ShuffleWithSeedExprs(prev, arg.n)
      [] op = "Sort" -> SortExprs(prev)
      [] OTHER -> {}

\* The expressions the calls that change a deck card by card would come to
\* on the full deck, on which the model does not make them.
ExprsOnFullDeck ==
    IF Small THEN {}
    ELSE DealExprs(cards)
         \cup UNION {DealNExprs(cards, n) : n \in IntInputs(Len(cards))}
         \cup UNION {InsertCardExprs(cards, position) : position \in IntInputs(Len(cards))}
         \cup UNION {RemoveCardExprs(cards, c) : c \in AllCards}

\* C23: whatever the state a call is made in, the empty deck and the deck of
\* one card included, and whatever the count, the position, the card, the
\* seed or the draws, every index expression, slice expression, make and
\* Intn that Deal, DealN, Peek, PeekN, InsertCard, RemoveCard, Shuffle,
\* ShuffleWithSeed or Sort comes to is one the run time lets pass: the call
\* completes or returns an error, it does not fault.
C23_NoFault ==
    \A e \in ExprsOfCall \cup ExprsOnFullDeck : InRange(e)

\* DealN was asked for more cards than a deck of one card has and returned
\* the error for it.
C23_Witness ==
    /\ op = "DealN"
    /\ Len(prev) = 1
    /\ arg.n > 1
    /\ ret.err = ErrNotEnough
    /\ cards = prev

\* ---------------------------------------------------------------------------
\* Sorting the shuffled full deck
\* ---------------------------------------------------------------------------

\* C24: Sort brings the full deck back from any shuffles to the order of
\* NewDeck, which is what Reset leaves.
C24_SortUndoesShuffle ==
    op = "Sort" => cards = NewDeck /\ cards = Reset

\* Sort was called on a full deck that two shuffles in a row had left out of
\* order.
C24_Witness ==
    /\ op = "Sort"
    /\ Len(prev) = 52
    /\ prev # NewDeck
    /\ \A draws \in SomeDraws(52) : prev # Shuffle(NewDeck, draws)
    /\ \A seed \in Seeds : prev # ShuffleWithSeed(NewDeck, seed)
    /\ cards = NewDeck

===========================================================================
